---- MODULE Spec2Model ----
(***************************************************************************)
(* Request/response layer of the racetime.gg bot library (src/lib.rs):     *)
(* `authorize` (OAuth2 client-credentials grant) and `StartRace::start`    *)
(* (room creation).  One call is in progress at a time; a call is          *)
(* suspended at its single `.send().await` until the caller-supplied HTTP  *)
(* client answers, fails, or the future is dropped.                        *)
(*                                                                         *)
(* Text that the code inspects byte by byte (the category, the `location`  *)
(* header) is a sequence of byte values; opaque text (goal, tokens, form   *)
(* values) is a string.  Option<T> is a sequence of length 0 or 1.         *)
(***************************************************************************)
EXTENDS Integers, Sequences, FiniteSets, TLC

VARIABLES
    op,         \* the call in progress: "none", "authorize" or "start"
    pc,         \* "idle", "pending" (suspended in send().await), "done", "dropped"
    self,       \* Option<StartRace>: the config of a start call
    category,   \* the category argument of a start call (bytes)
    request,    \* Option<request>: what was handed to the HTTP client
    sent,       \* number of send() round trips issued by the current call
    inflight,   \* TRUE while the network operation is pending
    response,   \* Option<response>: what the HTTP client answered
    result      \* Option<Result<_, Error>>: what the call returned

vars == <<op, pc, self, category, request, sent, inflight, response, result>>

----------------------------------------------------------------------------
(* Bounds of the model *)

\* longest `location` header value enumerated
MaxLen == 5

----------------------------------------------------------------------------
(* Option and Result *)

None == << >>
Some(x) == << x >>
IsSome(o) == Len(o) = 1
Unwrap(o) == o[1]
unwrap_or(o, default) == IF IsSome(o) THEN Unwrap(o) ELSE default

Ok(v) == [tag |-> "Ok", val |-> v, err |-> "none"]
Err(e) == [tag |-> "Err", val |-> << >>, err |-> e]
IsOk(r) == r.tag = "Ok"

\* the #[from] conversions of enum Error, applied by every `?`
ErrorFrom(source) ==
    CASE source = "reqwest::header::ToStrError" -> "HeaderToStr"
      [] source = "serde_json::Error" -> "Json"
      [] source = "tokio::task::JoinError" -> "Task"
      [] source = "url::ParseError" -> "UrlParse"
      [] source = "reqwest::Error" -> "Reqwest"

----------------------------------------------------------------------------
(* URI construction *)

RACETIME_HOST == "racetime.gg"

\* format!("{proto}://{RACETIME_HOST}{url}").parse(): the fragment is kept as
\* its path segments.  Every fragment the two calls pass starts with "/o/",
\* so the host is the constant and the composed text always parses.
uri(proto, url) == Ok([scheme |-> proto, host |-> RACETIME_HOST, path |-> url])

http_uri(url) == uri("https", url)

----------------------------------------------------------------------------
(* The HTTP client's answers *)

\* '/' as a byte
Slash == 47

\* bytes a HeaderValue / a category is built from here: '/', 'a', 'A', 0xFF
HeaderBytes == {Slash, 97, 255}
CategoryBytes == {Slash, 97, 65}

Statuses == {200, 201, 300, 404, 500}

RECURSIVE SeqsUpTo(_, _)
SeqsUpTo(S, n) ==
    IF n = 0 THEN {<< >>}
    ELSE LET shorter == SeqsUpTo(S, n - 1)
         IN  shorter \cup {Append(s, b) : s \in {t \in shorter : Len(t) = n - 1}, b \in S}

Locations == {None} \cup {Some(v) : v \in SeqsUpTo(HeaderBytes, MaxLen)}

\* a JSON value in a slot of the token body
JAbsent == [t |-> "absent", s |-> "", n |-> 0]
JNull == [t |-> "null", s |-> "", n |-> 0]
JString(s) == [t |-> "string", s |-> s, n |-> 0]
JUint(n) == [t |-> "uint", s |-> "", n |-> n]
JNegInt == [t |-> "negint", s |-> "", n |-> 0 - 1]
JBigInt == [t |-> "bigint", s |-> "", n |-> 0]
JFloat == [t |-> "float", s |-> "", n |-> 0]

AccessTokens == {"tokA", "tokB"}
UintSamples == {0, 3600, 36000, 86400}

AccessTokenSlots == {JAbsent, JNull, JUint(0)} \cup {JString(s) : s \in AccessTokens}
ExpiresInSlots ==
    {JAbsent, JNull, JNegInt, JBigInt, JFloat, JString("3600")}
        \cup {JUint(n) : n \in UintSamples}

NoBody == [kind |-> "empty", access_token |-> JAbsent, expires_in |-> JAbsent]

\* bodies of the token endpoint: not JSON at all, a JSON scalar, or a JSON
\* object / array holding the two slots
Bodies ==
    {[kind |-> k, access_token |-> JAbsent, expires_in |-> JAbsent] : k \in {"not_json", "scalar"}}
        \cup [kind : {"object", "array"}, access_token : AccessTokenSlots, expires_in : ExpiresInSlots]

Response(status, location, body) == [status |-> status, location |-> location, body |-> body]

----------------------------------------------------------------------------
(* Response handling *)

\* an error for a server-error (5xx) status only
error_for_status_server_only(resp) ==
    IF resp.status >= 500 /\ resp.status < 600 THEN Err("reqwest::Error") ELSE Ok(resp)

\* reqwest Response::error_for_status: an error for a client-error (4xx) or
\* server-error (5xx) status, the response itself otherwise
error_for_status(resp) ==
    IF (resp.status >= 400 /\ resp.status < 500) \/ (resp.status >= 500 /\ resp.status < 600)
    THEN Err("reqwest::Error")
    ELSE Ok(resp)

\* response.headers().get("location").ok_or(Error::MissingLocationHeader)
headers_get_location(resp) ==
    IF IsSome(resp.location) THEN Ok(Unwrap(resp.location)) ELSE Err("MissingLocationHeader")

\* HeaderValue::to_str: the text, provided every byte is visible ASCII or a tab
is_visible_ascii(b) == (b >= 32 /\ b < 127) \/ b = 9

to_str(value) ==
    IF \A i \in 1..Len(value) : is_visible_ascii(value[i])
    THEN Ok(value)
    ELSE Err("reqwest::header::ToStrError")

\* end of the longest run of non-'/' bytes of s that starts at i: the index
\* just past it
RECURSIVE RunEnd(_, _)
RunEnd(s, i) ==
    IF i > Len(s) \/ s[i] = Slash THEN i ELSE RunEnd(s, i + 1)

\* the pattern without its closing anchor, "^/([^/]+)/([^/]+)": text may follow
\* the second group
regex_captures_unanchored(location) ==
    IF Len(location) >= 1 /\ location[1] = Slash
    THEN LET e1 == RunEnd(location, 2)
         IN  IF e1 > 2 /\ e1 <= Len(location)
             THEN LET e2 == RunEnd(location, e1 + 1)
                  IN  IF e2 > e1 + 1
                      THEN Some(<<SubSeq(location, 1, e2 - 1),
                                  SubSeq(location, 2, e1 - 1),
                                  SubSeq(location, e1 + 1, e2 - 1)>>)
                      ELSE None
             ELSE None
    ELSE None

\* regex_captures!("^/([^/]+)/([^/]+)$", location): the whole match and the
\* two groups, or None.  A group is greedy, and cannot give a byte back
\* because the byte after it must be the '/' the group excludes.
regex_captures(location) ==
    IF Len(location) >= 1 /\ location[1] = Slash
    THEN LET e1 == RunEnd(location, 2)
         IN  IF e1 > 2 /\ e1 <= Len(location)
             THEN LET e2 == RunEnd(location, e1 + 1)
                  IN  IF e2 > e1 + 1 /\ e2 = Len(location) + 1
                      THEN Some(<<location,
                                  SubSeq(location, 2, e1 - 1),
                                  SubSeq(location, e1 + 1, Len(location))>>)
                      ELSE None
             ELSE None
    ELSE None

\* the header matched as bytes first and decoded as text afterwards
start_response_format_first(resp, cat) ==
    LET header == headers_get_location(resp)
    IN  IF ~IsOk(header) THEN Err(header.err)
        ELSE LET captures == regex_captures(header.val)
             IN  IF ~IsSome(captures) THEN Err("LocationFormat")
                 ELSE LET location == to_str(header.val)
                      IN  IF ~IsOk(location) THEN Err(ErrorFrom(location.err))
                          ELSE IF Unwrap(captures)[2] # cat
                               THEN Err("LocationCategory")
                               ELSE Ok(Unwrap(captures)[3])

\* lines 149-155 of start: location header -> slug
start_response(resp, cat) ==
    LET header == headers_get_location(resp)
    IN  IF ~IsOk(header) THEN Err(header.err)
        ELSE LET location == to_str(header.val)
             IN  IF ~IsOk(location) THEN Err(ErrorFrom(location.err))
                 ELSE LET captures == regex_captures(location.val)
                      IN  IF ~IsSome(captures) THEN Err("LocationFormat")
                          ELSE LET location_category == Unwrap(captures)[2]
                                   slug == Unwrap(captures)[3]
                               IN  IF location_category # cat
                                   THEN Err("LocationCategory")
                                   ELSE Ok(slug)

\* lines 147-155 of start, once send() has answered
start_outcome(resp, cat) ==
    LET checked == error_for_status(resp)
    IN  IF ~IsOk(checked) THEN Err(ErrorFrom(checked.err))
        ELSE start_response(checked.val, cat)

\* serde's derived Deserialize for AuthResponse, driven by serde_json: a JSON
\* object needs a string access_token and takes a missing or null expires_in
\* as None; a JSON array must supply both elements; u64 takes neither a
\* negative, an out-of-range nor a fractional number
AuthResponse_deserialize(body) ==
    IF body.kind \notin {"object", "array"} THEN Err("serde_json::Error")
    ELSE IF body.access_token.t # "string" THEN Err("serde_json::Error")
    ELSE IF body.expires_in.t = "absent"
         THEN IF body.kind = "object"
              THEN Ok([access_token |-> body.access_token.s, expires_in |-> None])
              ELSE Err("serde_json::Error")
    ELSE IF body.expires_in.t = "null"
         THEN Ok([access_token |-> body.access_token.s, expires_in |-> None])
    ELSE IF body.expires_in.t = "uint"
         THEN Ok([access_token |-> body.access_token.s, expires_in |-> Some(body.expires_in.n)])
    ELSE Err("serde_json::Error")

\* the body handed to serde_json directly: its own error type comes back
Response_json_serde(resp) == AuthResponse_deserialize(resp.body)

\* reqwest Response::json::<AuthResponse>(): reqwest reports a body that does
\* not deserialize as its own error type (a decode error)
Response_json(resp) ==
    LET data == AuthResponse_deserialize(resp.body)
    IN  IF IsOk(data) THEN data ELSE Err("reqwest::Error")

\* data.expires_in.unwrap_or(36000)
DefaultExpiresIn == 36000

\* the validity defaulting to zero seconds (unwrap_or_default)
authorize_value_zero_default(data) ==
    Ok(<<data.access_token, unwrap_or(data.expires_in, 0)>>)

\* lines 84-87: the token and Duration::from_secs of its validity
authorize_value(data) ==
    Ok(<<data.access_token, unwrap_or(data.expires_in, DefaultExpiresIn)>>)

\* lines 82-87 of authorize, once send() has answered
authorize_outcome(resp) ==
    LET checked == error_for_status(resp)
    IN  IF ~IsOk(checked) THEN Err(ErrorFrom(checked.err))
        ELSE LET data == Response_json(checked.val)
             IN  IF ~IsOk(data) THEN Err(ErrorFrom(data.err))
                 ELSE authorize_value(data.val)

----------------------------------------------------------------------------
(* The room configuration and its form *)

BoolFields ==
    {"team_race", "invitational", "unlisted", "require_even_teams",
     "time_limit_auto_complete", "auto_start", "allow_comments", "hide_comments",
     "allow_prerace_chat", "allow_midrace_chat", "allow_non_entrant_chat"}

Goals == {"Beat the game", "16 stars"}
OptionBool == {None, Some(TRUE), Some(FALSE)}

\* every StartRace whose booleans are chosen independently
AllConfigs ==
    [goal : Goals, goal_is_custom : BOOLEAN, team_race : BOOLEAN, invitational : BOOLEAN,
     unlisted : BOOLEAN, info_user : {"info"}, info_bot : {"bot"},
     require_even_teams : BOOLEAN, start_delay : {15}, time_limit : {24},
     time_limit_auto_complete : BOOLEAN, streaming_required : OptionBool,
     auto_start : BOOLEAN, allow_comments : BOOLEAN, hide_comments : BOOLEAN,
     allow_prerace_chat : BOOLEAN, allow_midrace_chat : BOOLEAN,
     allow_non_entrant_chat : BOOLEAN, chat_message_delay : {0}]

\* a StartRace whose eleven plain toggles all have the value b
UniformConfig(goal, custom, b, streaming, n) ==
    [goal |-> goal, goal_is_custom |-> custom, team_race |-> b, invitational |-> b,
     unlisted |-> b, info_user |-> "info", info_bot |-> "bot",
     require_even_teams |-> b, start_delay |-> n, time_limit |-> 24,
     time_limit_auto_complete |-> b, streaming_required |-> streaming,
     auto_start |-> b, allow_comments |-> b, hide_comments |-> b,
     allow_prerace_chat |-> b, allow_midrace_chat |-> b,
     allow_non_entrant_chat |-> b, chat_message_delay |-> n]

SampleConfigs ==
    {UniformConfig("16 stars", custom, b, streaming, n) :
        custom \in BOOLEAN, b \in BOOLEAN, streaming \in OptionBool, n \in {0, 255}}

\* the boolean rendered by its Display text
form_bool_display(value) == IF value THEN "true" ELSE "false"

\* fn form_bool(value: bool) -> &'static str
form_bool(value) == IF value THEN "1" ELSE "0"

Digit(d) ==
    CASE d = 0 -> "0" [] d = 1 -> "1" [] d = 2 -> "2" [] d = 3 -> "3" [] d = 4 -> "4"
      [] d = 5 -> "5" [] d = 6 -> "6" [] d = 7 -> "7" [] d = 8 -> "8" [] d = 9 -> "9"

\* u8::to_string: base 10, no leading zeros
RECURSIVE to_string(_)
to_string(n) == IF n < 10 THEN Digit(n) ELSE to_string(n \div 10) \o Digit(n % 10)

\* the goal always submitted under "goal"
goal_key_fixed(cfg) == "goal"

\* the key of the goal entry (line 123)
goal_key(cfg) == IF cfg.goal_is_custom THEN "custom_goal" ELSE "goal"

\* the key => value list handed to collect! (lines 122-140)
form_entries(cfg) ==
    << <<goal_key(cfg), cfg.goal>>,
       <<"team_race", form_bool(cfg.team_race)>>,
       <<"invitational", form_bool(cfg.invitational)>>,
       <<"unlisted", form_bool(cfg.unlisted)>>,
       <<"info_user", cfg.info_user>>,
       <<"info_bot", cfg.info_bot>>,
       <<"require_even_teams", form_bool(cfg.require_even_teams)>>,
       <<"start_delay", to_string(cfg.start_delay)>>,
       <<"time_limit", to_string(cfg.time_limit)>>,
       <<"time_limit_auto_complete", form_bool(cfg.time_limit_auto_complete)>>,
       <<"auto_start", form_bool(cfg.auto_start)>>,
       <<"allow_comments", form_bool(cfg.allow_comments)>>,
       <<"hide_comments", form_bool(cfg.hide_comments)>>,
       <<"allow_prerace_chat", form_bool(cfg.allow_prerace_chat)>>,
       <<"allow_midrace_chat", form_bool(cfg.allow_midrace_chat)>>,
       <<"allow_non_entrant_chat", form_bool(cfg.allow_non_entrant_chat)>>,
       <<"chat_message_delay", to_string(cfg.chat_message_delay)>> >>

\* BTreeMap::insert: the map with k bound to v, replacing an older binding
insert(m, k, v) == [x \in (DOMAIN m) \cup {k} |-> IF x = k THEN v ELSE m[x]]

\* collect![as BTreeMap<_, _>: ...]: the entries inserted in order
RECURSIVE collect(_)
collect(entries) ==
    IF Len(entries) = 0 THEN [x \in {} |-> ""]
    ELSE LET last == entries[Len(entries)]
         IN  insert(collect(SubSeq(entries, 1, Len(entries) - 1)), last[1], last[2])

\* streaming_required always submitted, None as false
insert_streaming_required_always(form, cfg) ==
    insert(form, "streaming_required", form_bool(unwrap_or(cfg.streaming_required, FALSE)))

\* lines 141-143: streaming_required joins the form only when it is Some
insert_streaming_required(form, cfg) ==
    IF IsSome(cfg.streaming_required)
    THEN insert(form, "streaming_required", form_bool(Unwrap(cfg.streaming_required)))
    ELSE form

\* the form start submits (lines 117-143)
start_form(cfg) == insert_streaming_required(collect(form_entries(cfg)), cfg)

\* the form authorize submits (lines 76-80)
authorize_form(client_id, client_secret) ==
    collect(<< <<"client_id", client_id>>,
               <<"client_secret", client_secret>>,
               <<"grant_type", "client_credentials">> >>)

Request(url, bearer, form) == [url |-> url, bearer |-> bearer, form |-> form]

----------------------------------------------------------------------------
(* The calls *)

BearerTokens == {"tokA"}
ClientIds == {"id1", "id2"}
ClientSecrets == {"secret1", "secret2"}
Categories == {<<97>>, <<65>>, <<97, 97>>, <<97, Slash, 97>>}

Init ==
    /\ op = "none"
    /\ pc = "idle"
    /\ self = None
    /\ category = << >>
    /\ request = None
    /\ sent = 0
    /\ inflight = FALSE
    /\ response = None
    /\ result = None

\* authorize up to its suspension in send().await (lines 75-81)
authorize_call ==
    /\ pc = "idle"
    /\ \E client_id \in ClientIds, client_secret \in ClientSecrets :
         LET url == http_uri(<<"o", "token">>)
         IN  IF ~IsOk(url)
             THEN /\ result' = Some(Err(ErrorFrom("url::ParseError")))
                  /\ pc' = "done"
                  /\ UNCHANGED <<request, sent, inflight>>
             ELSE /\ request' = Some(Request(url.val, None,
                                             authorize_form(client_id, client_secret)))
                  /\ sent' = sent + 1
                  /\ inflight' = TRUE
                  /\ pc' = "pending"
                  /\ UNCHANGED result
    /\ op' = "authorize"
    /\ UNCHANGED <<self, category, response>>

\* send() fails (connection, DNS, TLS): `.send().await?` returns the error
authorize_send_error ==
    /\ op = "authorize" /\ pc = "pending"
    /\ result' = Some(Err(ErrorFrom("reqwest::Error")))
    /\ inflight' = FALSE
    /\ pc' = "done"
    /\ UNCHANGED <<op, self, category, request, sent, response>>

\* send() answers: the rest of authorize runs to its return (lines 81-87)
authorize_response ==
    /\ op = "authorize" /\ pc = "pending"
    /\ \E status \in Statuses, body \in Bodies :
         LET resp == Response(status, None, body)
         IN  /\ response' = Some(resp)
             /\ result' = Some(authorize_outcome(resp))
    /\ inflight' = FALSE
    /\ pc' = "done"
    /\ UNCHANGED <<op, self, category, request, sent>>

\* StartRace::start up to its suspension in send().await (lines 116-147)
start_call(Configs, Cats) ==
    /\ pc = "idle"
    /\ \E cfg \in Configs, access_token \in BearerTokens, cat \in Cats :
         LET form == start_form(cfg)
             url == http_uri(<<"o", cat, "startrace">>)
         IN  /\ self' = Some(cfg)
             /\ category' = cat
             /\ IF ~IsOk(url)
                THEN /\ result' = Some(Err(ErrorFrom("url::ParseError")))
                     /\ pc' = "done"
                     /\ UNCHANGED <<request, sent, inflight>>
                ELSE /\ request' = Some(Request(url.val, Some(access_token), form))
                     /\ sent' = sent + 1
                     /\ inflight' = TRUE
                     /\ pc' = "pending"
                     /\ UNCHANGED result
    /\ op' = "start"
    /\ UNCHANGED response

\* a failed send() issued once more before giving up
start_send_error_retry ==
    /\ op = "start" /\ pc = "pending"
    /\ sent < 2
    /\ sent' = sent + 1
    /\ UNCHANGED <<op, pc, self, category, request, inflight, response, result>>

\* send() fails: `.send().await?` returns the error
start_send_error ==
    /\ op = "start" /\ pc = "pending"
    /\ result' = Some(Err(ErrorFrom("reqwest::Error")))
    /\ inflight' = FALSE
    /\ pc' = "done"
    /\ UNCHANGED <<op, self, category, request, sent, response>>

\* send() answers: the rest of start runs to its return (lines 147-155)
start_response_received(Stats, Locs) ==
    /\ op = "start" /\ pc = "pending"
    /\ \E status \in Stats, location \in Locs :
         LET resp == Response(status, location, NoBody)
         IN  /\ response' = Some(resp)
             /\ result' = Some(start_outcome(resp, category))
    /\ inflight' = FALSE
    /\ pc' = "done"
    /\ UNCHANGED <<op, self, category, request, sent>>

\* the dropped call reporting a JoinError to its caller
drop_future_reports_task ==
    /\ pc = "pending"
    /\ inflight' = FALSE
    /\ pc' = "dropped"
    /\ result' = Some(Err(ErrorFrom("tokio::task::JoinError")))
    /\ UNCHANGED <<op, self, category, request, sent, response>>

\* the caller drops the future while it is suspended in send().await: the
\* pending request is dropped with it and the body of the call never resumes
drop_future ==
    /\ pc = "pending"
    /\ inflight' = FALSE
    /\ pc' = "dropped"
    /\ UNCHANGED <<op, self, category, request, sent, response, result>>

\* the call is over; the library keeps nothing of it
next_call ==
    /\ pc \in {"done", "dropped"}
    /\ op' = "none"
    /\ pc' = "idle"
    /\ self' = None
    /\ category' = << >>
    /\ request' = None
    /\ sent' = 0
    /\ inflight' = FALSE
    /\ response' = None
    /\ result' = None

Next ==
    \/ authorize_call
    \/ authorize_send_error
    \/ authorize_response
    \/ start_call(SampleConfigs, Categories)
    \/ start_send_error
    \/ start_response_received(Statuses, Locations)
    \/ drop_future
    \/ next_call

Spec == Init /\ [][Next]_vars

\* the same calls with every combination of the configuration's toggles and a
\* few answers of the service
FormStatuses == {201, 404}
FormLocations == {None, Some(<<Slash, 97, Slash, 97>>)}

NextForm ==
    \/ authorize_call
    \/ authorize_send_error
    \/ authorize_response
    \/ start_call(AllConfigs, {<<97>>})
    \/ start_send_error
    \/ start_response_received(FormStatuses, FormLocations)
    \/ drop_future
    \/ next_call

SpecForm == Init /\ [][NextForm]_vars

----------------------------------------------------------------------------
(* Vocabulary of the properties *)

StartReturned == op = "start" /\ pc = "done"
AuthorizeReturned == op = "authorize" /\ pc = "done"
Answered == IsSome(response)
Status == Unwrap(response).status
Location == Unwrap(response).location
Body == Unwrap(response).body
Returned == Unwrap(result)
Form == Unwrap(request).form
Config == Unwrap(self)

\* a client-error or server-error status
FailureStatus(st) == st \in 400..599

IsText(v) == \A i \in 1..Len(v) : v[i] \in (32..126) \cup {9}
SlashFree(t) == \A i \in 1..Len(t) : t[i] # Slash

\* v is "/" c "/" s with c and s non-empty and free of '/'
HasShape(v, c, s) ==
    /\ v = <<Slash>> \o c \o <<Slash>> \o s
    /\ Len(c) > 0 /\ Len(s) > 0
    /\ SlashFree(c) /\ SlashFree(s)

\* the ways of cutting v into "/" c "/" s at a position i
Cuts(v) ==
    {<<SubSeq(v, 2, i - 1), SubSeq(v, i + 1, Len(v))>> : i \in 2..Len(v)}

WellShaped(v) == \E cut \in Cuts(v) : HasShape(v, cut[1], cut[2])
ShapedFor(v, cat) == \E cut \in Cuts(v) : cut[1] = cat /\ HasShape(v, cut[1], cut[2])

----------------------------------------------------------------------------
(* C1 *)

\* C1: start returns Ok(slug) exactly when the one response has a non-failure
\* status and a location header that is valid text of the shape /c/s, c and s
\* non-empty and slash-free, with c equal byte for byte to the category
\* argument; the value returned is then s.  Anything else is an error.
C1_SlugIffLocationMatches ==
    StartReturned =>
        /\ IsOk(Returned) <=>
              /\ Answered
              /\ ~FailureStatus(Status)
              /\ IsSome(Location)
              /\ IsText(Unwrap(Location))
              /\ ShapedFor(Unwrap(Location), category)
        /\ IsOk(Returned) => HasShape(Unwrap(Location), category, Returned.val)

\* a two-byte category and its slug recovered from /aa/a
C1_Witness ==
    /\ StartReturned
    /\ category = <<97, 97>>
    /\ Answered /\ Location = Some(<<Slash, 97, 97, Slash, 97>>)
    /\ Returned = Ok(<<97>>)

----------------------------------------------------------------------------
(* C2 *)

\* C2: on a non-failure status the error of start is that of the first check
\* to fail, in the order: header absent (MissingLocationHeader), header not
\* valid text (HeaderToStr), value not of the two-segment shape
\* (LocationFormat), category segment different from the category argument
\* (LocationCategory).
C2_FirstFailingCheck ==
    (StartReturned /\ Answered /\ ~FailureStatus(Status)) =>
        IF ~IsSome(Location) THEN Returned = Err("MissingLocationHeader")
        ELSE IF ~IsText(Unwrap(Location)) THEN Returned = Err("HeaderToStr")
        ELSE IF ~WellShaped(Unwrap(Location)) THEN Returned = Err("LocationFormat")
        ELSE IF ~ShapedFor(Unwrap(Location), category) THEN Returned = Err("LocationCategory")
        ELSE TRUE

\* /a/<0xFF> has the two-segment shape and the wrong category for "A", and is
\* not text: the text check is the one reported
C2_Witness ==
    /\ StartReturned
    /\ category = <<65>>
    /\ Answered /\ ~FailureStatus(Status)
    /\ Location = Some(<<Slash, 97, Slash, 255>>)
    /\ Returned = Err("HeaderToStr")

----------------------------------------------------------------------------
(* C3 *)

\* C3 as stated: every status outside 200-299 makes the call return the HTTP
\* error (Error::Reqwest), never a token or a slug.
C3_NonSuccessStatusIsHttpError ==
    (pc = "done" /\ Answered /\ Status \notin 200..299) => Returned = Err("Reqwest")

\* C3: every client-error or server-error status (400-599) makes authorize
\* and start return the HTTP error (Error::Reqwest), whatever the body and the
\* location header hold, and never a token or a slug.
C3_FailureStatusIsHttpError ==
    (pc = "done" /\ Answered /\ FailureStatus(Status)) => Returned = Err("Reqwest")

\* a 404 whose location header would otherwise have given a slug
C3_Witness ==
    /\ StartReturned
    /\ Answered /\ Status = 404
    /\ IsSome(Location) /\ ShapedFor(Unwrap(Location), category)
    /\ Returned = Err("Reqwest")

----------------------------------------------------------------------------
(* C4 *)

\* C4: a call of authorize or start issues exactly one round trip, whatever
\* its outcome, and none after a failure: from the moment the call is
\* suspended until it is over, send() has been called once.
C4_OneRoundTrip ==
    /\ pc = "idle" => sent = 0
    /\ pc \in {"pending", "done", "dropped"} => sent = 1

\* a start call that failed in its round trip
C4_Witness ==
    /\ StartReturned
    /\ ~Answered
    /\ Returned = Err("Reqwest")
    /\ sent = 1

----------------------------------------------------------------------------
(* C5 *)

----------------------------------------------------------------------------
(* C6 *)

\* the body cannot be read as { access_token: string, expires_in?: integer }
BodyRejected(body) ==
    \/ body.kind \in {"not_json", "scalar"}
    \/ body.access_token.t # "string"
    \/ body.expires_in.t \in {"negint", "bigint", "float", "string"}

\* C6 as stated: a success status with a body that does not match the shape
\* makes authorize fail with the JSON-decode error (Error::Json).
C6_BadBodyIsJsonError ==
    (AuthorizeReturned /\ Answered /\ ~FailureStatus(Status) /\ BodyRejected(Body)) =>
        Returned = Err("Json")

\* C6: a non-failure status with a body that is not JSON, or lacks a string
\* access_token, or has an expires_in that is not a non-negative integer in
\* range, makes authorize fail with the HTTP error (Error::Reqwest, reqwest's
\* decode error); authorize never returns Error::Json.
C6_BadBodyIsReqwestError ==
    AuthorizeReturned =>
        /\ Returned.err # "Json"
        /\ (Answered /\ ~FailureStatus(Status) /\ BodyRejected(Body)) =>
              Returned = Err("Reqwest")

\* a 200 whose JSON object has no access_token
C6_Witness ==
    /\ AuthorizeReturned
    /\ Answered /\ Status = 200
    /\ Body.kind = "object" /\ Body.access_token.t = "absent"
    /\ Returned = Err("Reqwest")

----------------------------------------------------------------------------
(* C7 *)

\* C7: on a successful token response authorize returns the body's
\* access_token unchanged, with a validity of expires_in seconds when that is
\* present and of 36000 seconds when it is absent.
C7_TokenAndValidity ==
    (AuthorizeReturned /\ Answered /\ ~FailureStatus(Status)
        /\ Body.kind = "object" /\ Body.access_token.t = "string"
        /\ Body.expires_in.t \in {"absent", "uint"}) =>
        Returned = Ok(<<Body.access_token.s,
                        IF Body.expires_in.t = "uint" THEN Body.expires_in.n ELSE 36000>>)

\* a token answered without expires_in
C7_Witness ==
    /\ AuthorizeReturned
    /\ Answered /\ Body.kind = "object" /\ Body.expires_in.t = "absent"
    /\ Returned = Ok(<<"tokB", 36000>>)

----------------------------------------------------------------------------
(* C8 *)

\* C8: the form of start has the key streaming_required exactly when the
\* config holds Some(value); its value is then "1" for Some(true) and "0" for
\* Some(false).
C8_StreamingRequiredOnlyWhenSome ==
    (op = "start" /\ IsSome(request)) =>
        /\ ("streaming_required" \in DOMAIN Form) <=> (Config.streaming_required # None)
        /\ Config.streaming_required = Some(TRUE) => Form["streaming_required"] = "1"
        /\ Config.streaming_required = Some(FALSE) => Form["streaming_required"] = "0"

\* a request sent for a config without streaming_required
C8_Witness ==
    /\ op = "start" /\ IsSome(request)
    /\ Config.streaming_required = None
    /\ "streaming_required" \notin DOMAIN Form

----------------------------------------------------------------------------
(* C9 *)

\* C9: the form of start has exactly one of the keys goal and custom_goal:
\* custom_goal when goal_is_custom, goal otherwise, bound to the config's goal.
C9_ExactlyOneGoalKey ==
    (op = "start" /\ IsSome(request)) =>
        IF Config.goal_is_custom
        THEN /\ "custom_goal" \in DOMAIN Form
             /\ "goal" \notin DOMAIN Form
             /\ Form["custom_goal"] = Config.goal
        ELSE /\ "goal" \in DOMAIN Form
             /\ "custom_goal" \notin DOMAIN Form
             /\ Form["goal"] = Config.goal

\* a request sent for a custom goal
C9_Witness ==
    /\ op = "start" /\ IsSome(request)
    /\ Config.goal_is_custom
    /\ DOMAIN Form \cap {"goal", "custom_goal"} = {"custom_goal"}

----------------------------------------------------------------------------
(* C10 *)

\* C10: every boolean field of the form of start, streaming_required included
\* when present, is "1" when the config's field is true and "0" when it is
\* false.
C10_BooleansAreOneOrZero ==
    (op = "start" /\ IsSome(request)) =>
        /\ \A f \in BoolFields :
              /\ f \in DOMAIN Form
              /\ Form[f] = (IF Config[f] THEN "1" ELSE "0")
        /\ "streaming_required" \in DOMAIN Form =>
              /\ Config.streaming_required # None
              /\ Form["streaming_required"] =
                    (IF Unwrap(Config.streaming_required) THEN "1" ELSE "0")

\* a request whose toggles differ from one another
C10_Witness ==
    /\ op = "start" /\ IsSome(request)
    /\ Config.team_race /\ ~Config.invitational
    /\ Config.allow_comments /\ ~Config.hide_comments
    /\ Form["team_race"] = "1" /\ Form["invitational"] = "0"
    /\ Form["allow_comments"] = "1" /\ Form["hide_comments"] = "0"

====
